---- MODULE Spec2Model ----
(***************************************************************************)
(* A model of the audit engine of spotify-audit-rs (core/src/audit.rs and  *)
(* core/src/models.rs): the Auditor's operations as they run against the   *)
(* remote catalog (the playlist and the liked-songs collection), one step  *)
(* per await point.                                                        *)
(*                                                                         *)
(* Text is a sequence of one-character strings, so that formatting and     *)
(* joining are computed rather than assumed.  Option<T> is a sequence of   *)
(* length 0 (None) or 1 (Some).                                            *)
(***************************************************************************)
EXTENDS Integers, Sequences, FiniteSets, TLC

VARIABLES
    playlist,           \* remote: the items of the playlist, in order
    liked,              \* remote: the saved tracks ("Liked Songs"), in order
    external,           \* how often another session may still unsave a track
    op,                 \* the Auditor operation of this invocation
    arg,                \* the identifier text the caller supplied
    pc,                 \* the await point the operation is suspended at
    seen,               \* the items the stream has yielded in this invocation
    summary,            \* AuditSummary of a scan
    display,            \* the text a ProblematicTrack was displayed as
    report,             \* SyncReport of a sync
    track_ids,          \* sync: the collected Vec<TrackId>
    by_isrc,            \* dedup: HashMap<String, Vec<FullTrack>>
    keepers,            \* dedup: best_track of each group resolved
    tracks_to_remove,   \* dedup: Vec<TrackId>
    removed_names,      \* dedup: Vec<String>
    batch,              \* index of the next chunk of a chunked mutation
    calls,              \* the requests the catalog client has issued
    result              \* what the operation returned

vars == <<playlist, liked, external, op, arg, pc, seen, summary, display, report,
          track_ids, by_isrc, keepers, tracks_to_remove, removed_names,
          batch, calls, result>>

-----------------------------------------------------------------------------
(* Bounds of the model. *)

\* Playlists hold up to MaxChunks full chunks, give or take one item.
MaxChunks == 2
\* Length of the freely chosen (short) playlists and liked collections.
MaxShort == 3
\* How often another session of the same user unsaves a track meanwhile.
MaxExternal == 1
\* Number of artists of a track handed to the classifier.
MaxArtists == 2

(* Program constants. *)

\* track_ids.chunks(50), tracks_to_remove.chunks(50)
ChunkSize == 50

\* The counters of the reports are u32 and usize; the collections of the model
\* stay far below 2^32 items, so no counter wraps and none is reduced here.

-----------------------------------------------------------------------------
(* Option and text helpers. *)

None == <<>>
Some(x) == <<x>>
IsSome(o) == Len(o) = 1
Unwrap(o) == o[1]

DigitChar == <<"0", "1", "2", "3", "4", "5", "6", "7", "8", "9">>

\* Display of an unsigned integer ({} in format!).
RECURSIVE ToStr(_)
ToStr(n) ==
    IF n < 10 THEN <<DigitChar[n + 1]>>
    ELSE ToStr(n \div 10) \o <<DigitChar[(n % 10) + 1]>>

Max(a, b) == IF a >= b THEN a ELSE b
Min(a, b) == IF a <= b THEN a ELSE b

\* The characters of an identifier in the catalog's native shape (base 62).
Alphanumeric ==
    {"0", "1", "2", "3", "4", "5", "6", "7", "8", "9", "a", "b", "Z"}

\* PlaylistId::from_id / TrackId::from_id accept a text iff every character
\* of it is ASCII alphanumeric.
from_id_ok(s) == \A k \in 1..Len(s) : s[k] \in Alphanumeric

\* id.to_string(): an identifier displays as its URI.
TrackUriPrefix ==
    <<"s", "p", "o", "t", "i", "f", "y", ":", "t", "r", "a", "c", "k", ":">>
id_to_string(id) == TrackUriPrefix \o id

-----------------------------------------------------------------------------
(* Tracks and playlist items. *)

\* FullTrack, the fields the engine reads.
Track(id, name, artists, album, is_playable, markets, isrc, url) ==
    [id |-> id, name |-> name, artists |-> artists, album |-> album,
     is_playable |-> is_playable, available_markets |-> markets,
     isrc |-> isrc, url |-> url]

MarketCodes == <<<<"U", "S">>, <<"M", "X">>, <<"D", "E">>, <<"J", "P">>>>
Markets(n) == SubSeq(MarketCodes, 1, n)

ArtistNames == <<<<"A", "b">>, <<"C">>>>

NoTrack == Track(None, <<>>, <<>>, <<>>, None, <<>>, None, None)

\* PlaylistItem.track : Option<PlayableItem>
TrackItem(t) == [payload |-> "Track", track |-> t]
EpisodeItem == [payload |-> "Episode", track |-> NoTrack]
AbsentItem == [payload |-> "None", track |-> NoTrack]

\* The k-th track of the catalog: its metadata varies with k.
CatalogTrack(k) ==
    Track(Some(ToStr(k)),
          <<"T">> \o ToStr(k),
          SubSeq(ArtistNames, 1, k % 3),
          <<"L">>,
          IF k % 3 = 0 THEN Some(FALSE) ELSE IF k % 3 = 1 THEN None ELSE Some(TRUE),
          Markets((k \div 3) % 3),
          None,
          IF k % 2 = 0 THEN Some(<<"u">> \o ToStr(k)) ELSE None)

\* A local file: a track without a catalog identifier.
LocalTrack(k) == [CatalogTrack(k) EXCEPT !.id = None]

ItemKinds == {"track", "local", "episode", "absent"}

ItemOfKind(kind, k) ==
    CASE kind = "track" -> TrackItem(CatalogTrack(k))
      [] kind = "local" -> TrackItem(LocalTrack(k))
      [] kind = "episode" -> EpisodeItem
      [] OTHER -> AbsentItem

\* Long playlists: the kinds of the items repeat with a period of 1 or 2.
KindCycles == {<<a>> : a \in ItemKinds} \cup {<<a, b>> : a, b \in ItemKinds}

CyclePlaylist(len, cyc) ==
    [k \in 1..len |-> ItemOfKind(cyc[((k - 1) % Len(cyc)) + 1], k)]

\* Lengths around the chunk boundaries.
LongLengths ==
    {c * ChunkSize + d : c \in 0..MaxChunks, d \in {-1, 0, 1}} \cap Nat

LongPlaylists == {CyclePlaylist(n, cyc) : n \in LongLengths, cyc \in KindCycles}

\* Sequences over S of length at most n.
SeqsUpTo(S, n) == UNION {[1..m -> S] : m \in 0..n}

-----------------------------------------------------------------------------
(* Results, errors and the requests seen by the catalog. *)

Pending == [kind |-> "pending"]
Ok(v) == [kind |-> "Ok", value |-> v]
Err(e) == [kind |-> "Err", error |-> e]

\* AuditError
InvalidId(s) == [variant |-> "InvalidId", text |-> s]
InvalidTrackId(s) == [variant |-> "InvalidTrackId", text |-> s]
Spotify(e) == [variant |-> "Spotify", text |-> e]

\* Display of the rspotify::ClientError a failed request returns.
ClientError == <<"h", "t", "t", "p">>

\* One request of the catalog client, and whether it succeeded.
Call(name, ids, ok) == [call |-> name, ids |-> ids, ok |-> ok]

\* The identifier texts a caller may supply.
IdInputs == {<<"7", "Z">>, <<"7", "/", "Z">>}

\* The stream's next item: Some(item), or None at the end of the source.
try_next(source) ==
    IF Len(seen) < Len(source) THEN Some(source[Len(seen) + 1]) ELSE None

\* Remote effect of current_user_saved_tracks_add: the collection is a set
\* of identifiers, a track already saved is not saved twice.
HasId(lk, id) == \E k \in 1..Len(lk) : lk[k].id = Some(id)

PlaylistTrack(id) ==
    LET k == CHOOSE j \in 1..Len(playlist) :
                 playlist[j].payload = "Track" /\ playlist[j].track.id = Some(id)
    IN  playlist[k].track

Map(f(_), s) == [k \in 1..Len(s) |-> f(s[k])]

Indices(s) == [k \in 1..Len(s) |-> k]

SaveTracks(lk, ids) ==
    LET IsNew(k) == /\ ~HasId(lk, ids[k])
                    /\ \A j \in 1..(k - 1) : ids[j] /= ids[k]
        NewTrack(k) == PlaylistTrack(ids[k])
    IN  lk \o Map(NewTrack, SelectSeq(Indices(ids), IsNew))

\* Remote effect of current_user_saved_tracks_delete.
UnsaveTracks(lk, ids) ==
    LET Stays(t) == \A k \in 1..Len(ids) : t.id /= Some(ids[k])
    IN  SelectSeq(lk, Stays)

\* Mutant of Chunk: the chunk runs one element into the next one.
ChunkOverlapping(s, i) ==
    SubSeq(s, i * ChunkSize + 1, Min(Len(s), (i + 1) * ChunkSize + 1))

\* slice.chunks(ChunkSize): the i-th chunk (0-based), and whether it exists.
HasChunk(s, i) == i * ChunkSize < Len(s)
Chunk(s, i) == SubSeq(s, i * ChunkSize + 1, Min(Len(s), (i + 1) * ChunkSize))

-----------------------------------------------------------------------------
(* The records of models.rs. *)

\* AuditSummary::new()
NewAuditSummary == [total_tracks_scanned |-> 0, problematic_tracks |-> <<>>]

\* SyncReport::default()
DefaultSyncReport ==
    [initial_liked_count |-> 0, final_liked_count |-> 0,
     total_tracks_in_playlist |-> 0, tracks_processed |-> 0,
     estimated_added |-> 0, batch_logs |-> <<>>]

SyncBatchLog(i, chunk, status) ==
    [batch_index |-> i, tracks_count |-> Len(chunk),
     track_ids |-> Map(id_to_string, chunk), status |-> status]

StatusSuccess == <<"S", "u", "c", "c", "e", "s", "s">>
StatusError(e) == <<"E", "r", "r", "o", "r", ":", " ">> \o e

-----------------------------------------------------------------------------
(* The state before an operation is invoked. *)

\* HashMap::new()
EmptyMap == [k \in {} |-> <<>>]

Idle ==
    /\ external = MaxExternal
    /\ op = "none"
    /\ arg = <<>>
    /\ pc = "idle"
    /\ seen = <<>>
    /\ summary = NewAuditSummary
    /\ display = <<>>
    /\ report = DefaultSyncReport
    /\ track_ids = <<>>
    /\ by_isrc = EmptyMap
    /\ keepers = EmptyMap
    /\ tracks_to_remove = <<>>
    /\ removed_names = <<>>
    /\ batch = 0
    /\ calls = <<>>
    /\ result = Pending

remote == <<playlist, liked>>
scanVars == <<summary, display>>
syncVars == <<report, track_ids>>
dedupVars == <<by_isrc, keepers, tracks_to_remove, removed_names>>

\* The operation returns r.
Return(r) == pc' = "done" /\ result' = r

\* Another session of the same user unsaves a track while the operation runs.
RemoteUnsave ==
    /\ pc \notin {"idle", "done"}
    /\ external > 0
    /\ liked /= <<>>
    /\ liked' = Tail(liked)
    /\ external' = external - 1
    /\ UNCHANGED <<playlist, op, arg, pc, seen, scanVars, syncVars, dedupVars,
                   batch, calls, result>>

-----------------------------------------------------------------------------
(* Auditor::sync_playlist_to_liked *)

InvokeSync ==
    /\ pc = "idle"
    /\ \E s \in IdInputs : arg' = s
    /\ op' = "sync_playlist_to_liked"
    /\ pc' = "sync_initial_count"
    /\ UNCHANGED <<remote, external, seen, scanVars, syncVars, dedupVars,
                   batch, calls, result>>

\* get_liked_songs_count() answers; the identifier is parsed next.
SyncInitialCountOk ==
    /\ pc = "sync_initial_count"
    /\ calls' = Append(calls, Call("saved_tracks_total", <<>>, TRUE))
    /\ report' = [DefaultSyncReport EXCEPT !.initial_liked_count = Len(liked)]
    /\ IF from_id_ok(arg)
       THEN pc' = "sync_enumerate" /\ result' = result
       ELSE Return(Err(InvalidId(arg)))
    /\ UNCHANGED <<remote, external, op, arg, seen, scanVars, track_ids,
                   dedupVars, batch>>

SyncInitialCountErr ==
    /\ pc = "sync_initial_count"
    /\ calls' = Append(calls, Call("saved_tracks_total", <<>>, FALSE))
    /\ Return(Err(Spotify(ClientError)))
    /\ UNCHANGED <<remote, external, op, arg, seen, scanVars, syncVars,
                   dedupVars, batch>>

\* The identifiers pushed for one playlist item.
CollectedIds(item) ==
    IF item.payload = "Track" /\ IsSome(item.track.id)
    THEN <<Unwrap(item.track.id)>>
    ELSE <<>>

\* The request that opens an enumeration goes out with the first poll; a poll
\* that fails is a request for a page that failed.
Polled(name) ==
    IF seen = <<>> THEN Append(calls, Call(name, <<>>, TRUE)) ELSE calls
PollFailed(name) == Append(calls, Call(name, <<>>, FALSE))

\* stream.try_next() yields an item.
SyncEnumerateItem ==
    /\ pc = "sync_enumerate"
    /\ IsSome(try_next(playlist))
    /\ LET item == Unwrap(try_next(playlist)) IN
         /\ seen' = Append(seen, item)
         /\ track_ids' = track_ids \o CollectedIds(item)
         /\ report' = [report EXCEPT !.total_tracks_in_playlist = @ + 1]
    /\ calls' = Polled("playlist_items")
    /\ UNCHANGED <<remote, external, op, arg, pc, scanVars, dedupVars, batch,
                   result>>

\* Mutant of Processed: every enumerated item counts as processed.
ProcessedCountsItems(r, ids) ==
    [r EXCEPT !.tracks_processed = r.total_tracks_in_playlist]

\* The report once the stream has ended.
Processed(r, ids) == [r EXCEPT !.tracks_processed = Len(ids)]

\* Mutant of SyncEnumerateEnd: no early return when nothing was collected.
SyncEnumerateEndAlwaysAdds ==
    /\ pc = "sync_enumerate"
    /\ ~IsSome(try_next(playlist))
    /\ calls' = Polled("playlist_items")
    /\ report' = Processed(report, track_ids)
    /\ pc' = "sync_add"
    /\ UNCHANGED <<remote, external, op, arg, seen, scanVars, track_ids,
                   dedupVars, batch, result>>

\* stream.try_next() yields None: the stream has ended.
SyncEnumerateEnd ==
    /\ pc = "sync_enumerate"
    /\ ~IsSome(try_next(playlist))
    /\ calls' = Polled("playlist_items")
    /\ IF track_ids = <<>>
       THEN /\ report' = [Processed(report, track_ids) EXCEPT
                             !.final_liked_count = report.initial_liked_count]
            /\ Return(Ok(report'))
       ELSE /\ report' = Processed(report, track_ids)
            /\ pc' = "sync_add"
            /\ result' = result
    /\ UNCHANGED <<remote, external, op, arg, seen, scanVars, track_ids,
                   dedupVars, batch>>

\* Mutant of SyncEnumerateErr: the failure is taken for the end of the stream
\* (while let Ok(Some(item)) = stream.try_next().await).
SyncEnumerateErrSwallowed ==
    /\ pc = "sync_enumerate"
    /\ calls' = PollFailed("playlist_items")
    /\ IF track_ids = <<>>
       THEN /\ report' = [Processed(report, track_ids) EXCEPT
                             !.final_liked_count = report.initial_liked_count]
            /\ Return(Ok(report'))
       ELSE /\ report' = Processed(report, track_ids)
            /\ pc' = "sync_add"
            /\ result' = result
    /\ UNCHANGED <<remote, external, op, arg, seen, scanVars, track_ids,
                   dedupVars, batch>>

SyncEnumerateErr ==
    /\ pc = "sync_enumerate"
    /\ calls' = PollFailed("playlist_items")
    /\ Return(Err(Spotify(ClientError)))
    /\ UNCHANGED <<remote, external, op, arg, seen, scanVars, syncVars,
                   dedupVars, batch>>

\* Where the loop over the chunks goes after chunk i.
AfterChunk(s, i, next, after) ==
    /\ batch' = i + 1
    /\ pc' = IF HasChunk(s, i + 1) THEN next ELSE after

\* Mutant of SyncAddOk: two chunks are requested at a time when there are
\* two (join!(add(chunk), add(next))).
SyncAddOkPaired ==
    /\ pc = "sync_add"
    /\ LET chunk == Chunk(track_ids, batch)
           next == Chunk(track_ids, batch + 1)
       IN  IF HasChunk(track_ids, batch + 1)
           THEN /\ calls' = calls \o <<Call("saved_tracks_add", chunk, TRUE),
                                       Call("saved_tracks_add", next, TRUE)>>
                /\ liked' = SaveTracks(liked, chunk \o next)
                /\ report' = [report EXCEPT !.batch_logs =
                                 @ \o <<SyncBatchLog(batch, chunk,
                                                     StatusSuccess),
                                        SyncBatchLog(batch + 1, next,
                                                     StatusSuccess)>>]
                /\ AfterChunk(track_ids, batch + 1, "sync_add",
                              "sync_final_count")
           ELSE /\ calls' = Append(calls,
                                   Call("saved_tracks_add", chunk, TRUE))
                /\ liked' = SaveTracks(liked, chunk)
                /\ report' = [report EXCEPT !.batch_logs =
                                 Append(@, SyncBatchLog(batch, chunk,
                                                        StatusSuccess))]
                /\ AfterChunk(track_ids, batch, "sync_add",
                              "sync_final_count")
    /\ UNCHANGED <<playlist, external, op, arg, seen, scanVars, track_ids,
                   dedupVars, result>>

\* current_user_saved_tracks_add(chunk) succeeds.
SyncAddOk ==
    /\ pc = "sync_add"
    /\ LET chunk == Chunk(track_ids, batch) IN
         /\ calls' = Append(calls, Call("saved_tracks_add", chunk, TRUE))
         /\ liked' = SaveTracks(liked, chunk)
         /\ report' = [report EXCEPT !.batch_logs =
                          Append(@, SyncBatchLog(batch, chunk, StatusSuccess))]
    /\ AfterChunk(track_ids, batch, "sync_add", "sync_final_count")
    /\ UNCHANGED <<playlist, external, op, arg, seen, scanVars, track_ids,
                   dedupVars, result>>

\* Mutant of SyncAddErr: the failure of a chunk is returned with `?`.
SyncAddErrAborts ==
    /\ pc = "sync_add"
    /\ LET chunk == Chunk(track_ids, batch) IN
         /\ calls' = Append(calls, Call("saved_tracks_add", chunk, FALSE))
         /\ report' = [report EXCEPT !.batch_logs =
                          Append(@, SyncBatchLog(batch, chunk,
                                                 StatusError(ClientError)))]
    /\ batch' = batch + 1
    /\ Return(Err(Spotify(ClientError)))
    /\ UNCHANGED <<remote, external, op, arg, seen, scanVars, track_ids,
                   dedupVars>>

\* current_user_saved_tracks_add(chunk) fails: nothing of the chunk is saved.
SyncAddErr ==
    /\ pc = "sync_add"
    /\ LET chunk == Chunk(track_ids, batch) IN
         /\ calls' = Append(calls, Call("saved_tracks_add", chunk, FALSE))
         /\ report' = [report EXCEPT !.batch_logs =
                          Append(@, SyncBatchLog(batch, chunk,
                                                 StatusError(ClientError)))]
    /\ AfterChunk(track_ids, batch, "sync_add", "sync_final_count")
    /\ UNCHANGED <<remote, external, op, arg, seen, scanVars, track_ids,
                   dedupVars, result>>

\* Mutant of EstimatedAdded: the difference is taken without the comparison.
EstimatedAddedUnguarded(r) ==
    [r EXCEPT !.estimated_added = r.final_liked_count - r.initial_liked_count]

\* estimated_added once final_liked_count is known.
EstimatedAdded(r) ==
    IF r.final_liked_count >= r.initial_liked_count
    THEN [r EXCEPT !.estimated_added =
                      r.final_liked_count - r.initial_liked_count]
    ELSE r

SyncFinalCountOk ==
    /\ pc = "sync_final_count"
    /\ calls' = Append(calls, Call("saved_tracks_total", <<>>, TRUE))
    /\ report' = EstimatedAdded([report EXCEPT !.final_liked_count = Len(liked)])
    /\ Return(Ok(report'))
    /\ UNCHANGED <<remote, external, op, arg, seen, scanVars, track_ids,
                   dedupVars, batch>>

SyncFinalCountErr ==
    /\ pc = "sync_final_count"
    /\ calls' = Append(calls, Call("saved_tracks_total", <<>>, FALSE))
    /\ Return(Err(Spotify(ClientError)))
    /\ UNCHANGED <<remote, external, op, arg, seen, scanVars, syncVars,
                   dedupVars, batch>>

Sync ==
    \/ InvokeSync
    \/ SyncInitialCountOk
    \/ SyncInitialCountErr
    \/ SyncEnumerateItem
    \/ SyncEnumerateEnd
    \/ SyncEnumerateErr
    \/ SyncAddOk
    \/ SyncAddErr
    \/ SyncFinalCountOk
    \/ SyncFinalCountErr

\* The liked collection a sync starts from.
SyncLiked ==
    {<<>>, <<CatalogTrack(1)>>, <<CatalogTrack(1), LocalTrack(2)>>}

InitSync ==
    /\ playlist \in LongPlaylists
    /\ liked \in SyncLiked
    /\ Idle

NextSync == Sync \/ RemoteUnsave

SpecSync == InitSync /\ [][NextSync]_vars

-----------------------------------------------------------------------------
(* The classifier: Auditor::analyze_track and create_problem_report. *)

\* [&str]::join(sep)
RECURSIVE Join(_, _)
Join(parts, sep) ==
    IF parts = <<>> THEN <<>>
    ELSE IF Len(parts) = 1 THEN Head(parts)
    ELSE Head(parts) \o sep \o Join(Tail(parts), sep)

CommaSpace == <<",", " ">>
Unknown == <<"u", "n", "k", "n", "o", "w", "n">>
\* "Track marked as unplayable by Spotify"
ReasonUnplayable ==
    <<"T", "r", "a", "c", "k", " ", "m", "a", "r", "k", "e", "d", " ", "a", "s", " ", "u", "n", "p",
      "l", "a", "y", "a", "b", "l", "e", " ", "b", "y", " ", "S", "p", "o", "t", "i", "f", "y">>

\* Option::unwrap_or
UnwrapOr(o, d) == IF IsSome(o) THEN Unwrap(o) ELSE d

create_problem_report(track, reason) ==
    [id |-> IF IsSome(track.id) THEN id_to_string(Unwrap(track.id)) ELSE Unknown,
     name |-> track.name,
     artists |-> Join(track.artists, CommaSpace),
     album |-> track.album,
     reason |-> reason,
     external_url |-> UnwrapOr(track.url, <<>>),
     available_markets_count |-> Len(track.available_markets)]

\* Mutant of analyze_track: an unknown playability flag counts as unplayable.
analyze_track_distrusting(track) ==
    IF ~UnwrapOr(track.is_playable, FALSE)
    THEN Some(create_problem_report(track, ReasonUnplayable))
    ELSE None

analyze_track(track) ==
    IF ~UnwrapOr(track.is_playable, TRUE)
    THEN Some(create_problem_report(track, ReasonUnplayable))
    ELSE None

\* Mutant of add_problem: the problem is put in front.
add_problem_in_front(s, problem) ==
    [s EXCEPT !.problematic_tracks = <<problem>> \o @]

\* AuditSummary::add_problem
add_problem(s, problem) ==
    [s EXCEPT !.problematic_tracks = Append(@, problem)]

\* Mutant of ScanTrack: only the flagged tracks are counted.
ScanTrackCountsProblems(s, track) ==
    LET problem == analyze_track(track)
    IN  IF IsSome(problem)
        THEN add_problem([s EXCEPT !.total_tracks_scanned = @ + 1],
                         Unwrap(problem))
        ELSE s

\* The body of the scan loops for one track.
ScanTrack(s, track) ==
    LET counted == [s EXCEPT !.total_tracks_scanned = @ + 1]
        problem == analyze_track(track)
    IN  IF IsSome(problem) THEN add_problem(counted, Unwrap(problem))
        ELSE counted

\* The classifier applied to one track, the input of the invocation.
AnalyzeTrack ==
    /\ pc = "idle"
    /\ playlist /= <<>>
    /\ playlist[1].payload = "Track"
    /\ op' = "analyze_track"
    /\ seen' = playlist
    /\ Return(Ok(analyze_track(playlist[1].track)))
    /\ UNCHANGED <<remote, external, arg, scanVars, syncVars, dedupVars,
                   batch, calls>>

\* impl fmt::Display for ProblematicTrack.  The two emoji are one character
\* each.
RedCircle == "U+1F534"
Globe == "U+1F30D"
RemovedGlobally == <<RedCircle>> \o <<" ", "R", "E", "M", "O", "V", "E", "D", " ", "G", "L", "O", "B", "A", "L", "L", "Y">>
GeoLocked == <<Globe>> \o <<" ", "G", "E", "O", "-", "L", "O", "C", "K", "E", "D">>
AvailableIn == <<"A", "v", "a", "i", "l", "a", "b", "l", "e", " ", "i", "n", " ">>
MarketsWord == <<" ", "m", "a", "r", "k", "e", "t", "s">>

\* Mutant of Status: a track is taken for removed when it has one market or
\* none.
StatusOffByOne(count) ==
    IF count <= 1
    THEN RemovedGlobally
    ELSE GeoLocked \o <<" ", "(">> \o AvailableIn \o ToStr(count)
             \o MarketsWord \o <<")">>

\* let status = if self.available_markets_count == 0 { .. } else { .. }
Status(count) ==
    IF count = 0
    THEN RemovedGlobally
    ELSE GeoLocked \o <<" ", "(">> \o AvailableIn \o ToStr(count)
             \o MarketsWord \o <<")">>

\* write!(f, "[{}] {} - {} (Album: {}) -> {} | {}", ..)
Display(p) ==
    <<"[">> \o p.id \o <<"]", " ">> \o p.name \o <<" ", "-", " ">>
        \o p.artists \o <<" ", "(", "A", "l", "b", "u", "m", ":", " ">> \o p.album
        \o <<")", " ", "-", ">", " ">> \o p.reason \o <<" ", "|", " ">>
        \o Status(p.available_markets_count)

\* format!("{}", track) of the problem the classifier returned.
DisplayProblem ==
    /\ pc = "done"
    /\ op = "analyze_track"
    /\ IsSome(result.value)
    /\ display = <<>>
    /\ display' = Display(Unwrap(result.value))
    /\ UNCHANGED <<remote, external, op, arg, pc, seen, summary, syncVars,
                   dedupVars, batch, calls, result>>

-----------------------------------------------------------------------------
(* Auditor::scan_liked_songs *)

InvokeScanLiked ==
    /\ pc = "idle"
    /\ op' = "scan_liked_songs"
    /\ pc' = "scan_liked_enumerate"
    /\ UNCHANGED <<remote, external, arg, seen, scanVars, syncVars, dedupVars,
                   batch, calls, result>>

\* The saved tracks as the items of a stream.
SavedItems == [k \in 1..Len(liked) |-> TrackItem(liked[k])]

ScanLikedItem ==
    /\ pc = "scan_liked_enumerate"
    /\ IsSome(try_next(SavedItems))
    /\ LET item == Unwrap(try_next(SavedItems)) IN
         /\ seen' = Append(seen, item)
         /\ summary' = ScanTrack(summary, item.track)
         /\ display' = display
    /\ calls' = Polled("saved_tracks")
    /\ UNCHANGED <<remote, external, op, arg, pc, syncVars, dedupVars, batch,
                   result>>

ScanLikedEnd ==
    /\ pc = "scan_liked_enumerate"
    /\ ~IsSome(try_next(SavedItems))
    /\ calls' = Polled("saved_tracks")
    /\ Return(Ok(summary))
    /\ UNCHANGED <<remote, external, op, arg, seen, scanVars, syncVars,
                   dedupVars, batch>>

ScanLikedErr ==
    /\ pc = "scan_liked_enumerate"
    /\ calls' = PollFailed("saved_tracks")
    /\ Return(Err(Spotify(ClientError)))
    /\ UNCHANGED <<remote, external, op, arg, seen, scanVars, syncVars,
                   dedupVars, batch>>

ScanLiked ==
    \/ InvokeScanLiked
    \/ ScanLikedItem
    \/ ScanLikedEnd
    \/ ScanLikedErr

-----------------------------------------------------------------------------
(* Auditor::scan_playlist *)

InvokeScanPlaylist ==
    /\ pc = "idle"
    /\ \E s \in IdInputs : arg' = s
    /\ op' = "scan_playlist"
    /\ pc' = "scan_playlist_parse"
    /\ UNCHANGED <<remote, external, seen, scanVars, syncVars, dedupVars,
                   batch, calls, result>>

\* PlaylistId::from_id(playlist_id_str), before the stream is created.
ScanPlaylistParse ==
    /\ pc = "scan_playlist_parse"
    /\ IF from_id_ok(arg)
       THEN pc' = "scan_playlist_enumerate" /\ result' = result
       ELSE Return(Err(InvalidId(arg)))
    /\ UNCHANGED <<remote, external, op, arg, seen, scanVars, syncVars,
                   dedupVars, batch, calls>>

\* The body of the loop for one playlist item.
ScanItem(s, item) ==
    IF item.payload = "Track" THEN ScanTrack(s, item.track) ELSE s

ScanPlaylistItem ==
    /\ pc = "scan_playlist_enumerate"
    /\ IsSome(try_next(playlist))
    /\ LET item == Unwrap(try_next(playlist)) IN
         /\ seen' = Append(seen, item)
         /\ summary' = ScanItem(summary, item)
         /\ display' = display
    /\ calls' = Polled("playlist_items")
    /\ UNCHANGED <<remote, external, op, arg, pc, syncVars, dedupVars, batch,
                   result>>

ScanPlaylistEnd ==
    /\ pc = "scan_playlist_enumerate"
    /\ ~IsSome(try_next(playlist))
    /\ calls' = Polled("playlist_items")
    /\ Return(Ok(summary))
    /\ UNCHANGED <<remote, external, op, arg, seen, scanVars, syncVars,
                   dedupVars, batch>>

ScanPlaylistErr ==
    /\ pc = "scan_playlist_enumerate"
    /\ calls' = PollFailed("playlist_items")
    /\ Return(Err(Spotify(ClientError)))
    /\ UNCHANGED <<remote, external, op, arg, seen, scanVars, syncVars,
                   dedupVars, batch>>

ScanPlaylist ==
    \/ InvokeScanPlaylist
    \/ ScanPlaylistParse
    \/ ScanPlaylistItem
    \/ ScanPlaylistEnd
    \/ ScanPlaylistErr

-----------------------------------------------------------------------------
(* Auditor::inspect_track *)

InvokeInspect ==
    /\ pc = "idle"
    /\ \E s \in IdInputs : arg' = s
    /\ op' = "inspect_track"
    /\ pc' = "inspect_parse"
    /\ UNCHANGED <<remote, external, seen, scanVars, syncVars, dedupVars,
                   batch, calls, result>>

\* TrackId::from_id(track_id_str)
InspectParse ==
    /\ pc = "inspect_parse"
    /\ IF from_id_ok(arg)
       THEN pc' = "inspect_lookup" /\ result' = result
       ELSE Return(Err(InvalidTrackId(arg)))
    /\ UNCHANGED <<remote, external, op, arg, seen, scanVars, syncVars,
                   dedupVars, batch, calls>>

\* TrackInspection, the fields the model of a track has.
TrackInspection(track) ==
    [id |-> IF IsSome(track.id) THEN id_to_string(Unwrap(track.id)) ELSE <<>>,
     name |-> track.name,
     artists |-> track.artists,
     album |-> track.album,
     is_playable |-> track.is_playable,
     available_markets |-> track.available_markets]

\* The tracks a lookup may answer with.
LookupTracks == {CatalogTrack(3), LocalTrack(4)}

InspectLookupOk ==
    /\ pc = "inspect_lookup"
    /\ calls' = Append(calls, Call("track", <<arg>>, TRUE))
    /\ \E t \in LookupTracks : Return(Ok(TrackInspection(t)))
    /\ UNCHANGED <<remote, external, op, arg, seen, scanVars, syncVars,
                   dedupVars, batch>>

InspectLookupErr ==
    /\ pc = "inspect_lookup"
    /\ calls' = Append(calls, Call("track", <<arg>>, FALSE))
    /\ Return(Err(Spotify(ClientError)))
    /\ UNCHANGED <<remote, external, op, arg, seen, scanVars, syncVars,
                   dedupVars, batch>>

Inspect ==
    \/ InvokeInspect
    \/ InspectParse
    \/ InspectLookupOk
    \/ InspectLookupErr

-----------------------------------------------------------------------------
(* Auditor::deduplicate_liked_songs *)

InvokeDedup ==
    /\ pc = "idle"
    /\ op' = "deduplicate_liked_songs"
    /\ pc' = "dedup_enumerate"
    /\ UNCHANGED <<remote, external, arg, seen, scanVars, syncVars, dedupVars,
                   batch, calls, result>>

\* by_isrc.entry(isrc).or_default().push(track)
Push(m, key, t) ==
    [x \in DOMAIN m \cup {key} |->
        IF x \in DOMAIN m
        THEN IF x = key THEN Append(m[x], t) ELSE m[x]
        ELSE <<t>>]

\* The body of the grouping loop for one saved track.
Grouped(m, track) ==
    IF IsSome(track.isrc) THEN Push(m, Unwrap(track.isrc), track) ELSE m

DedupItem ==
    /\ pc = "dedup_enumerate"
    /\ IsSome(try_next(SavedItems))
    /\ LET item == Unwrap(try_next(SavedItems)) IN
         /\ seen' = Append(seen, item)
         /\ by_isrc' = Grouped(by_isrc, item.track)
    /\ calls' = Polled("saved_tracks")
    /\ UNCHANGED <<remote, external, op, arg, pc, scanVars, syncVars, keepers,
                   tracks_to_remove, removed_names, batch, result>>

DedupErr ==
    /\ pc = "dedup_enumerate"
    /\ calls' = PollFailed("saved_tracks")
    /\ Return(Err(Spotify(ClientError)))
    /\ UNCHANGED <<remote, external, op, arg, seen, scanVars, syncVars,
                   dedupVars, batch>>

MarketsOf(t) == Len(t.available_markets)

\* Mutant of SortByMarkets: among tracks with as many markets the later one
\* comes first (an unstable sort).
SortByMarketsUnstable(tracks) ==
    LET Before(j, k) ==
            \/ MarketsOf(tracks[j]) > MarketsOf(tracks[k])
            \/ MarketsOf(tracks[j]) = MarketsOf(tracks[k]) /\ j > k
        Rank(k) == 1 + Cardinality({j \in 1..Len(tracks) : Before(j, k)})
    IN  [r \in 1..Len(tracks) |->
            tracks[CHOOSE k \in 1..Len(tracks) : Rank(k) = r]]

\* sorted_tracks.sort_by_key(|t| Reverse(t.available_markets.len())): a stable
\* sort, so a track comes before the tracks with fewer markets and before
\* the later tracks with as many.
SortByMarkets(tracks) ==
    LET Before(j, k) ==
            \/ MarketsOf(tracks[j]) > MarketsOf(tracks[k])
            \/ MarketsOf(tracks[j]) = MarketsOf(tracks[k]) /\ j < k
        Rank(k) == 1 + Cardinality({j \in 1..Len(tracks) : Before(j, k)})
    IN  [r \in 1..Len(tracks) |->
            tracks[CHOOSE k \in 1..Len(tracks) : Rank(k) = r]]

\* Mutant of Marked: the identifier of the duplicate is not compared with the
\* keeper's.
MarkedWhateverTheKeeper(duplicate, best_track) ==
    IsSome(duplicate.id)

\* Whether the duplicate is marked for removal, given the keeper.
Marked(duplicate, best_track) ==
    IsSome(duplicate.id) /\ duplicate.id /= best_track.id

\* Mutant of GroupDuplicates: the duplicates are marked although the keeper
\* has no market.
GroupDuplicatesOfDead(tracks) ==
    LET sorted_tracks == SortByMarkets(tracks)
        best_track == sorted_tracks[1]
        IsMarked(d) == Marked(d, best_track)
    IN  IF Len(tracks) > 1
        THEN SelectSeq(Tail(sorted_tracks), IsMarked)
        ELSE <<>>

\* The duplicates of one group that are marked for removal, in order.
GroupDuplicates(tracks) ==
    LET sorted_tracks == SortByMarkets(tracks)
        best_track == sorted_tracks[1]
        IsMarked(d) == Marked(d, best_track)
    IN  IF Len(tracks) > 1 /\ MarketsOf(best_track) > 0
        THEN SelectSeq(Tail(sorted_tracks), IsMarked)
        ELSE <<>>

\* format!("{} (Markets: {})", duplicate.name, dup_markets)
MarketsOpen == <<" ", "(", "M", "a", "r", "k", "e", "t", "s", ":", " ">>
RemovedName(duplicate) ==
    duplicate.name \o MarketsOpen \o ToStr(MarketsOf(duplicate)) \o <<")">>

TrackIdOf(t) == Unwrap(t.id)

\* The loop over by_isrc, which yields its groups in the order `order`.
RECURSIVE Resolve(_, _)
Resolve(m, order) ==
    IF order = <<>>
    THEN [remove |-> <<>>, names |-> <<>>, keepers |-> EmptyMap]
    ELSE LET front == Resolve(m, SubSeq(order, 1, Len(order) - 1))
             isrc == order[Len(order)]
             dups == GroupDuplicates(m[isrc])
         IN  [remove |-> front.remove \o Map(TrackIdOf, dups),
              names |-> front.names \o Map(RemovedName, dups),
              keepers |-> IF Len(m[isrc]) > 1
                          THEN [x \in DOMAIN front.keepers \cup {isrc} |->
                                   IF x = isrc THEN SortByMarkets(m[isrc])[1]
                                   ELSE front.keepers[x]]
                          ELSE front.keepers]

\* The orders in which a HashMap may yield the keys S.
Orders(S) ==
    {o \in [1..Cardinality(S) -> S] :
        \A a, b \in 1..Cardinality(S) : a /= b => o[a] /= o[b]}

\* The stream has ended: the groups are resolved, and removal begins.
DedupEnd ==
    /\ pc = "dedup_enumerate"
    /\ ~IsSome(try_next(SavedItems))
    /\ calls' = Polled("saved_tracks")
    /\ \E order \in Orders(DOMAIN by_isrc) :
         LET r == Resolve(by_isrc, order) IN
           /\ tracks_to_remove' = r.remove
           /\ removed_names' = r.names
           /\ keepers' = r.keepers
    /\ IF tracks_to_remove' = <<>>
       THEN Return(Ok(removed_names'))
       ELSE pc' = "dedup_delete" /\ result' = result
    /\ UNCHANGED <<remote, external, op, arg, seen, scanVars, syncVars,
                   by_isrc, batch>>

\* current_user_saved_tracks_delete(chunk) succeeds.
DedupDeleteOk ==
    /\ pc = "dedup_delete"
    /\ LET chunk == Chunk(tracks_to_remove, batch) IN
         /\ calls' = Append(calls, Call("saved_tracks_delete", chunk, TRUE))
         /\ liked' = UnsaveTracks(liked, chunk)
    /\ batch' = batch + 1
    /\ IF HasChunk(tracks_to_remove, batch + 1)
       THEN pc' = pc /\ result' = result
       ELSE Return(Ok(removed_names))
    /\ UNCHANGED <<playlist, external, op, arg, seen, scanVars, syncVars,
                   dedupVars>>

\* Mutant of DedupDeleteErr: the failure of a chunk is passed over and the
\* loop goes on with the next chunk.
DedupDeleteErrIsolated ==
    /\ pc = "dedup_delete"
    /\ LET chunk == Chunk(tracks_to_remove, batch) IN
         calls' = Append(calls, Call("saved_tracks_delete", chunk, FALSE))
    /\ batch' = batch + 1
    /\ IF HasChunk(tracks_to_remove, batch + 1)
       THEN pc' = pc /\ result' = result
       ELSE Return(Ok(removed_names))
    /\ UNCHANGED <<remote, external, op, arg, seen, scanVars, syncVars,
                   dedupVars>>

\* current_user_saved_tracks_delete(chunk) fails: `?` returns the error.
DedupDeleteErr ==
    /\ pc = "dedup_delete"
    /\ LET chunk == Chunk(tracks_to_remove, batch) IN
         calls' = Append(calls, Call("saved_tracks_delete", chunk, FALSE))
    /\ Return(Err(Spotify(ClientError)))
    /\ UNCHANGED <<remote, external, op, arg, seen, scanVars, syncVars,
                   dedupVars, batch>>

Dedup ==
    \/ InvokeDedup
    \/ DedupItem
    \/ DedupErr
    \/ DedupEnd
    \/ DedupDeleteOk
    \/ DedupDeleteErr

-----------------------------------------------------------------------------
(* The collections the operations run against. *)

\* Short playlists of every kind of item.
ScanTracks == {CatalogTrack(k) : k \in {1, 2, 3, 9}} \cup {LocalTrack(3)}
ScanItems == {TrackItem(t) : t \in ScanTracks} \cup {EpisodeItem, AbsentItem}
ShortPlaylists == SeqsUpTo(ScanItems, MaxShort)
ShortLiked == SeqsUpTo(ScanTracks, MaxShort)

\* Saved tracks as the duplicate resolver tells them apart: by identifier,
\* ISRC and number of markets.
IdLabels == <<<<"1">>, <<"2">>, <<"3">>>>
IsrcLabels == <<<<"X">>, <<"Y">>>>
MarketCounts == {0, 1, 2}

Range(s) == {s[k] : k \in 1..Len(s)}

DedupTrack(id, isrc, m) ==
    Track(id, <<"N">> \o UnwrapOr(id, <<"x">>), <<>>, <<"L">>,
          IF m = 0 THEN Some(FALSE) ELSE None, Markets(m), isrc, None)

\* A saved track in short: <<i, r, m>> for the i-th identifier and the r-th
\* ISRC (0: it has none) and m markets.
TrackCodes ==
    (0..Len(IdLabels)) \X (0..Len(IsrcLabels)) \X MarketCounts

Labelled(labels, i) == IF i = 0 THEN None ELSE Some(labels[i])

DecodeTrack(c) ==
    DedupTrack(Labelled(IdLabels, c[1]), Labelled(IsrcLabels, c[2]), c[3])

\* The largest label used at position p of the codes s (0: none).
LastLabel(s, p) ==
    IF s = <<>> THEN 0
    ELSE CHOOSE i \in {s[k][p] : k \in 1..Len(s)} :
             \A k \in 1..Len(s) : s[k][p] <= i

\* c may follow the saved tracks s.  Labels are used in their order: the
\* first identifier of a collection is "1", the next new one "2" (the
\* resolver only compares them).  An identifier names one track of the
\* catalog, so a second entry with the identifier of an earlier one is that
\* same track.
MayFollow(s, c) ==
    /\ c[1] <= LastLabel(s, 1) + 1
    /\ c[2] <= LastLabel(s, 2) + 1
    /\ \A k \in 1..Len(s) : (c[1] /= 0 /\ s[k][1] = c[1]) => s[k] = c

\* The collections of exactly n saved tracks, in short.
RECURSIVE DedupCodes(_)
DedupCodes(n) ==
    IF n = 0 THEN {<<>>}
    ELSE {Append(p[1], p[2]) :
             p \in {q \in DedupCodes(n - 1) \X TrackCodes :
                       MayFollow(q[1], q[2])}}

\* The saved tracks the codes s stand for.
DedupLiked(s) == Map(DecodeTrack, s)

\* A long collection: n recordings of one ISRC under n identifiers.
LongLiked(n) ==
    [k \in 1..n |->
        Track(Some(ToStr(k)), <<"N">> \o ToStr(k), <<>>, <<"L">>, None,
              Markets(1 + (k % 2)), Some(<<"X">>), None)]

\* The tracks handed to the classifier.
ClassifierTracks ==
    {Track(id, name, artists, album, is_playable, Markets(m), None, url) :
        id \in {None, Some(<<"1">>), Some(<<"2", "Z">>)},
        name \in {<<"N">>, <<"M", "m">>},
        artists \in SeqsUpTo(Range(ArtistNames), MaxArtists),
        album \in {<<"L">>, <<"K", "k">>},
        is_playable \in {None, Some(TRUE), Some(FALSE)},
        m \in MarketCounts,
        url \in {None, Some(<<"u">>)}}

-----------------------------------------------------------------------------
(* Specifications. *)

\* Scans, inspection and sync against short collections of every kind.
InitAudit ==
    /\ \/ playlist \in ShortPlaylists /\ liked \in SyncLiked
       \/ playlist = <<>> /\ liked \in ShortLiked
    /\ Idle

NextAudit == ScanLiked \/ ScanPlaylist \/ Inspect \/ Sync \/ RemoteUnsave

SpecAudit == InitAudit /\ [][NextAudit]_vars

\* The classifier as a function of one track.
InitClassify ==
    /\ playlist \in {<<TrackItem(t)>> : t \in ClassifierTracks}
    /\ liked = <<>>
    /\ Idle

NextClassify == AnalyzeTrack \/ DisplayProblem

SpecClassify == InitClassify /\ [][NextClassify]_vars

\* Deduplication of the liked songs.
DedupShort ==
    /\ playlist = <<>>
    /\ \E n \in 0..MaxShort : \E s \in DedupCodes(n) : liked = DedupLiked(s)

DedupLong ==
    /\ playlist = <<>>
    /\ \E n \in LongLengths : liked = LongLiked(n)

InitDedup == (DedupShort \/ DedupLong) /\ Idle

NextDedup == Dedup

SpecDedup == InitDedup /\ [][NextDedup]_vars

\* The operations that enumerate a track source, against every short
\* collection, with no other session at work.
InitEnumerate == InitAudit \/ (DedupShort /\ Idle)

NextEnumerate == ScanLiked \/ ScanPlaylist \/ Sync \/ Dedup

SpecEnumerate == InitEnumerate /\ [][NextEnumerate]_vars

\* Every operation against every collection.
Init == InitSync \/ InitAudit \/ InitDedup \/ InitClassify

Next == Sync \/ ScanLiked \/ ScanPlaylist \/ Inspect \/ Dedup \/ AnalyzeTrack
        \/ DisplayProblem \/ RemoteUnsave

Spec == Init /\ [][Next]_vars

-----------------------------------------------------------------------------
(* The properties of the engine. *)

RECURSIVE Flatten(_)
Flatten(ss) == IF ss = <<>> THEN <<>> ELSE Head(ss) \o Flatten(Tail(ss))

RECURSIVE Sum(_)
Sum(ns) == IF ns = <<>> THEN 0 ELSE Head(ns) + Sum(Tail(ns))

IsAddCall(c) == c.call = "saved_tracks_add"
AddCalls == SelectSeq(calls, IsAddCall)
IdsOf(c) == c.ids
LogIds(l) == l.track_ids
LogCount(l) == l.tracks_count

SyncReturned == op = "sync_playlist_to_liked" /\ result.kind = "Ok"

\* n = ceil(total / ChunkSize)
IsCeilOfChunks(n, total) ==
    ChunkSize * (n - 1) < total /\ total <= ChunkSize * n

\* C1: the batch logs a sync returns partition the collected identifiers:
\* ceil(N/50) logs, none with more than 50 identifiers, each tracks_count the
\* length of its track_ids, the logs' track_ids in order are the collected
\* identifiers (as displayed), and the counts add up to tracks_processed.
C1_BatchLogsPartition ==
    (SyncReturned /\ Len(track_ids) >= 1) =>
        LET logs == result.value.batch_logs IN
          /\ IsCeilOfChunks(Len(logs), Len(track_ids))
          /\ \A k \in 1..Len(logs) :
                /\ logs[k].tracks_count <= ChunkSize
                /\ logs[k].tracks_count = Len(logs[k].track_ids)
          /\ Flatten(Map(LogIds, logs)) = Map(id_to_string, track_ids)
          /\ Sum(Map(LogCount, logs)) = result.value.tracks_processed

\* A sync returned three logs, the last of them shorter than a chunk.
C1_Witness ==
    /\ SyncReturned
    /\ Len(result.value.batch_logs) = 3
    /\ result.value.batch_logs[3].tracks_count < ChunkSize

\* The enumeration of the playlist ran to its end and collected something.
SyncEnumerated ==
    /\ op = "sync_playlist_to_liked"
    /\ track_ids /= <<>>
    /\ \/ pc = "sync_final_count"
       \/ /\ pc = "done"
          /\ \A k \in 1..Len(calls) :
                calls[k].call = "playlist_items" => calls[k].ok

IsPrefix(a, b) == Len(a) <= Len(b) /\ SubSeq(b, 1, Len(a)) = a

\* C2: a failing add-to-liked chunk never aborts the sync: every chunk is
\* attempted once whatever the other chunks did, each attempt is logged with
\* "Success" or an error status according to its outcome, and the sync returns
\* the report unless a liked-count query fails.
C2_ChunkFailureNeverAborts ==
    op = "sync_playlist_to_liked" =>
        LET logs == report.batch_logs IN
          /\ Len(logs) = Len(AddCalls)
          /\ \A k \in 1..Len(logs) :
                /\ AddCalls[k].ok => logs[k].status = StatusSuccess
                /\ ~AddCalls[k].ok =>
                      /\ logs[k].status /= StatusSuccess
                      /\ IsPrefix(<<"E", "r", "r", "o", "r">>, logs[k].status)
          /\ SyncEnumerated =>
                /\ IsCeilOfChunks(Len(AddCalls), Len(track_ids))
                /\ Flatten(Map(IdsOf, AddCalls)) = track_ids
          /\ (SyncEnumerated /\ pc = "done") =>
                \/ result = Ok(report)
                \/ /\ result = Err(Spotify(ClientError))
                   /\ calls[Len(calls)] = Call("saved_tracks_total", <<>>, FALSE)

\* A sync returned its report although the first chunk failed, and the chunk
\* after it was added.
C2_Witness ==
    /\ SyncReturned
    /\ Len(AddCalls) >= 2
    /\ ~AddCalls[1].ok
    /\ AddCalls[2].ok

IsCollectible(item) == item.payload = "Track" /\ IsSome(item.track.id)
ItemId(item) == Unwrap(item.track.id)

\* C4: a sync whose enumeration yields no collectible identifier issues no
\* add call and returns a report with final_liked_count = initial_liked_count,
\* estimated_added = 0 and no batch logs.
C4_NothingToSync ==
    (op = "sync_playlist_to_liked" /\ SelectSeq(seen, IsCollectible) = <<>>) =>
        /\ AddCalls = <<>>
        /\ pc \notin {"sync_add", "sync_final_count"}
        /\ (/\ pc = "done"
            /\ from_id_ok(arg)
            /\ \A k \in 1..Len(calls) : calls[k].ok) =>
              /\ result.kind = "Ok"
              /\ result.value.final_liked_count =
                    result.value.initial_liked_count
              /\ result.value.estimated_added = 0
              /\ result.value.batch_logs = <<>>
              /\ Len(calls) = 2

\* A sync returned for a playlist of some items, tracks among them, none of
\* which has an identifier.
C4_Witness ==
    /\ SyncReturned
    /\ track_ids = <<>>
    /\ \E k \in 1..Len(seen) : seen[k].payload = "Track"
    /\ result.value.initial_liked_count > 0

\* C5: estimated_added = max(0, final_liked_count - initial_liked_count) in
\* every report a sync returns.
C5_EstimatedAddedClamped ==
    SyncReturned =>
        LET r == result.value IN
          /\ r.estimated_added =
                Max(0, r.final_liked_count - r.initial_liked_count)
          /\ r.estimated_added >= 0

\* A sync returned with fewer liked songs than it started with.
C5_Witness ==
    /\ SyncReturned
    /\ result.value.final_liked_count < result.value.initial_liked_count

\* C6: total_tracks_in_playlist counts every enumerated item,
\* tracks_processed the enumerated tracks that have an identifier, so
\* tracks_processed <= total_tracks_in_playlist, and the identifiers submitted
\* for adding are those of the counted tracks in enumeration order.
C6_CountsOfSync ==
    SyncReturned =>
        LET r == result.value
            counted == SelectSeq(seen, IsCollectible)
        IN  /\ seen = playlist
            /\ r.total_tracks_in_playlist = Len(seen)
            /\ r.tracks_processed = Len(counted)
            /\ r.tracks_processed <= r.total_tracks_in_playlist
            /\ Flatten(Map(IdsOf, AddCalls)) = Map(ItemId, counted)

\* A sync returned having processed more than a chunk of tracks, but not
\* every item of the playlist.
C6_Witness ==
    /\ SyncReturned
    /\ result.value.tracks_processed > ChunkSize
    /\ result.value.tracks_processed < result.value.total_tracks_in_playlist

TakesIdentifier ==
    op \in {"scan_playlist", "sync_playlist_to_liked", "inspect_track"}

\* C3: an operation given an identifier that does not parse fails with the
\* invalid-identifier error and has issued no request to the catalog.
C3_InvalidIdBeforeAnyCall ==
    (TakesIdentifier /\ ~from_id_ok(arg)) =>
        /\ calls = <<>>
        /\ pc = "done" =>
              /\ result.kind = "Err"
              /\ result.error.variant \in {"InvalidId", "InvalidTrackId"}

IsScan == op \in {"scan_liked_songs", "scan_playlist"}
IsTrackItem(item) == item.payload = "Track"
IsFlagged(item) ==
    item.payload = "Track" /\ item.track.is_playable = Some(FALSE)

\* C7: total_tracks_scanned is the number of tracks the scan has enumerated,
\* flagged or not: a new summary is empty, a track adds one, an item that is
\* no track adds nothing, and appending a problem does not change the count.
C7_TotalTracksScanned ==
    /\ pc = "idle" =>
          summary.total_tracks_scanned = 0 /\ summary.problematic_tracks = <<>>
    /\ IsScan =>
          /\ summary.total_tracks_scanned = Len(SelectSeq(seen, IsTrackItem))
          /\ result.kind = "Ok" => result.value = summary

\* A playlist scan returned having seen a flagged track, an unflagged track
\* and an item that is no track.
C7_Witness ==
    /\ op = "scan_playlist"
    /\ result.kind = "Ok"
    /\ result.value.total_tracks_scanned = 2
    /\ Len(result.value.problematic_tracks) = 1
    /\ Len(seen) = 3

\* C8: the problematic tracks of a returned scan are the enumerated tracks
\* flagged known-unplayable, each once, in the order of enumeration.
C8_ProblemsInEnumerationOrder ==
    (IsScan /\ result.kind = "Ok") =>
        LET flagged == SelectSeq(seen, IsFlagged)
            problems == result.value.problematic_tracks
        IN  /\ Len(problems) = Len(flagged)
            /\ \A k \in 1..Len(problems) :
                  /\ problems[k].name = flagged[k].track.name
                  /\ problems[k].available_markets_count =
                        Len(flagged[k].track.available_markets)
                  /\ IsSome(flagged[k].track.id) =>
                        problems[k].id = id_to_string(Unwrap(flagged[k].track.id))
                  /\ ~IsSome(flagged[k].track.id) => problems[k].id = Unknown

\* A scan returned two different problematic tracks with an unflagged track
\* enumerated between them.
C8_Witness ==
    /\ IsScan
    /\ result.kind = "Ok"
    /\ Len(seen) = 3
    /\ IsFlagged(seen[1]) /\ ~IsFlagged(seen[2]) /\ IsFlagged(seen[3])
    /\ IsTrackItem(seen[2])
    /\ seen[1].track.name /= seen[3].track.name

\* The artists joined with ", ", from the last one backwards.
RECURSIVE CommaJoined(_)
CommaJoined(names) ==
    IF names = <<>> THEN <<>>
    ELSE IF Len(names) = 1 THEN names[1]
    ELSE CommaJoined(SubSeq(names, 1, Len(names) - 1))
             \o <<",", " ">> \o names[Len(names)]

Classified == op = "analyze_track" /\ pc = "done"

\* C9: the classifier returns no problem for a track whose playability is
\* unknown or known-playable, and for a known-unplayable track one problem
\* with the track's identifier ("unknown" when it has none), name, album,
\* comma-joined artists and number of markets.
C9_Classifier ==
    Classified =>
        LET track == playlist[1].track
            problem == result.value
        IN  /\ track.is_playable \in {None, Some(TRUE)} => problem = None
            /\ track.is_playable = Some(FALSE) =>
                  /\ IsSome(problem)
                  /\ Unwrap(problem).id =
                        (IF IsSome(track.id)
                         THEN TrackUriPrefix \o Unwrap(track.id)
                         ELSE Unknown)
                  /\ Unwrap(problem).name = track.name
                  /\ Unwrap(problem).album = track.album
                  /\ Unwrap(problem).artists = CommaJoined(track.artists)
                  /\ Unwrap(problem).available_markets_count =
                        Len(track.available_markets)

\* The classifier flagged a track of two artists and no identifier.
C9_Witness ==
    /\ Classified
    /\ IsSome(result.value)
    /\ Len(playlist[1].track.artists) = 2
    /\ ~IsSome(playlist[1].track.id)

\* The classifier passed a track whose playability is unknown.
C9_WitnessUnknown ==
    /\ Classified
    /\ playlist[1].track.is_playable = None
    /\ result.value = None

\* The groups have been resolved: removal is under way or over.
Resolved ==
    /\ op = "deduplicate_liked_songs"
    /\ \/ pc = "dedup_delete"
       \/ /\ pc = "done"
          /\ \A k \in 1..Len(calls) :
                calls[k].call = "saved_tracks" => calls[k].ok

ItemTrack(item) == item.track

\* The enumerated tracks of one ISRC, in the order of enumeration.
GroupOf(isrc) ==
    LET InGroup(item) == item.track.isrc = Some(isrc)
    IN  Map(ItemTrack, SelectSeq(seen, InGroup))

SeenIsrcs ==
    {Unwrap(seen[k].track.isrc) :
        k \in {j \in 1..Len(seen) : IsSome(seen[j].track.isrc)}}

MaxMarkets(g) ==
    CHOOSE m \in {MarketsOf(g[k]) : k \in 1..Len(g)} :
        \A k \in 1..Len(g) : MarketsOf(g[k]) <= m

\* The position of the first track of g that has the most markets.
FirstBest(g) ==
    CHOOSE k \in 1..Len(g) :
        /\ MarketsOf(g[k]) = MaxMarkets(g)
        /\ \A j \in 1..(k - 1) : MarketsOf(g[j]) < MaxMarkets(g)

SeenWithId(id) ==
    {seen[k].track : k \in {j \in 1..Len(seen) : seen[j].track.id = Some(id)}}

\* A group that may yield proposals: two members or more, one with a market.
IsLiveGroup(g) ==
    /\ Len(g) >= 2
    /\ \E k \in 1..Len(g) : MarketsOf(g[k]) > 0

\* C11: every identifier proposed for removal is the identifier of an
\* enumerated track that has an ISRC, whose group has two members or more and
\* a member with a market; a track without ISRC is never proposed, and a
\* group whose members all have no market yields no proposal.
C11_ProposalsAreObservedDuplicates ==
    \A k \in 1..Len(tracks_to_remove) :
        \E t \in SeenWithId(tracks_to_remove[k]) :
            /\ IsSome(t.isrc)
            /\ IsLiveGroup(GroupOf(Unwrap(t.isrc)))

\* A removal was proposed although the enumeration also held a track with an
\* identifier and no ISRC; it is not among the proposals.
C11_Witness ==
    /\ Resolved
    /\ tracks_to_remove /= <<>>
    /\ \E k \in 1..Len(seen) :
          /\ ~IsSome(seen[k].track.isrc)
          /\ IsSome(seen[k].track.id)
          /\ Unwrap(seen[k].track.id) \notin Range(tracks_to_remove)

\* A group of two tracks without markets and two identifiers was resolved
\* and nothing was proposed.
C11_WitnessDeadGroup ==
    /\ Resolved
    /\ tracks_to_remove = <<>>
    /\ \E isrc \in SeenIsrcs :
          LET g == GroupOf(isrc) IN
            /\ Len(g) = 2
            /\ IsSome(g[1].id) /\ IsSome(g[2].id) /\ g[1].id /= g[2].id
            /\ MarketsOf(g[1]) = 0 /\ MarketsOf(g[2]) = 0

\* The enumerated track that has the identifier id.
SeenTrack(id) == CHOOSE t \in SeenWithId(id) : TRUE

NoIdTwice(ids) ==
    \A j, k \in 1..Len(ids) : j /= k => ids[j] /= ids[k]

\* The proposals of a group are adjacent, and within a group they are in the
\* order of the sorted group: more markets first.
GroupThenMember(ids) ==
    LET isrc(k) == SeenTrack(ids[k]).isrc
        markets(k) == MarketsOf(SeenTrack(ids[k]))
    IN  /\ \A j, k, l \in 1..Len(ids) :
              (j < k /\ k < l /\ isrc(j) = isrc(l)) => isrc(k) = isrc(j)
        /\ \A j, k \in 1..Len(ids) :
              (j < k /\ isrc(j) = isrc(k)) => markets(j) >= markets(k)

\* One description "name (Markets: n)" per identifier, in the same order.
NamesMatch(ids, names) ==
    /\ Len(names) = Len(ids)
    /\ \A k \in 1..Len(ids) :
          names[k] = SeenTrack(ids[k]).name
                       \o <<" ", "(", "M", "a", "r", "k", "e", "t", "s", ":",
                            " ">>
                       \o ToStr(MarketsOf(SeenTrack(ids[k]))) \o <<")">>

\* C12: the proposed identifiers are emitted without repetition, also when
\* an identifier occurs more than once in the enumeration, in
\* group-then-member order, and the descriptions are one "name (Markets: n)"
\* per proposed identifier in the same order.
C12_ProposalsDeduplicatedInOrder ==
    Resolved =>
        /\ NoIdTwice(tracks_to_remove)
        /\ GroupThenMember(tracks_to_remove)
        /\ NamesMatch(tracks_to_remove, removed_names)

IsDeleteCall(c) == c.call = "saved_tracks_delete"
DeleteCalls == SelectSeq(calls, IsDeleteCall)

\* The operation is over and its enumeration did not fail.
DedupOver == Resolved /\ pc = "done"

\* C13: removal goes in chunks of at most 50 and a chunk's failure does not
\* abort the chunks after it: whatever chunks fail, when the operation is
\* over every chunk of the proposed-removal list has been issued exactly
\* once.
C13_RemovalChunksAllIssued ==
    DedupOver =>
        /\ IsCeilOfChunks(Len(DeleteCalls), Len(tracks_to_remove))
        /\ \A k \in 1..Len(DeleteCalls) :
              /\ Len(DeleteCalls[k].ids) <= ChunkSize
              /\ DeleteCalls[k].ids = Chunk(tracks_to_remove, k - 1)

IsEnumeration(c) == c.call \in {"saved_tracks", "playlist_items"}
IsMutation(c) == c.call \in {"saved_tracks_add", "saved_tracks_delete"}

\* The enumeration of the track source has failed.
EnumerationFailed ==
    \E k \in 1..Len(calls) : IsEnumeration(calls[k]) /\ ~calls[k].ok

\* C14: when the enumeration of the track source fails in scan_liked_songs,
\* scan_playlist, sync_playlist_to_liked or deduplicate_liked_songs, the
\* operation is over with the catalog error and nothing else as its result,
\* the failed request was its last, no add or remove request was issued, and
\* in deduplication nothing was resolved.
C14_EnumerationFailureAborts ==
    EnumerationFailed =>
        /\ op \in {"scan_liked_songs", "scan_playlist",
                   "sync_playlist_to_liked", "deduplicate_liked_songs"}
        /\ pc = "done"
        /\ result = Err(Spotify(ClientError))
        /\ IsEnumeration(calls[Len(calls)]) /\ ~calls[Len(calls)].ok
        /\ SelectSeq(calls, IsMutation) = <<>>
        /\ report.batch_logs = <<>>
        /\ op = "deduplicate_liked_songs" =>
              /\ tracks_to_remove = <<>>
              /\ removed_names = <<>>
              /\ keepers = EmptyMap

\* Deduplication failed part-way, after it had enumerated a track with
\* markets and a duplicate of it without.
C14_Witness ==
    /\ EnumerationFailed
    /\ op = "deduplicate_liked_songs"
    /\ \E isrc \in SeenIsrcs :
          LET g == GroupOf(isrc) IN
            /\ Len(g) = 2
            /\ IsSome(g[1].id) /\ IsSome(g[2].id) /\ g[1].id /= g[2].id
            /\ MarketsOf(g[1]) > 0 /\ MarketsOf(g[2]) = 0

\* A sync failed part-way, after it had collected an identifier.
C14_WitnessSync ==
    /\ EnumerationFailed
    /\ op = "sync_playlist_to_liked"
    /\ track_ids /= <<>>
    /\ Len(seen) < Len(playlist)

\* A scan failed part-way, after it had flagged a track.
C14_WitnessScan ==
    /\ EnumerationFailed
    /\ op \in {"scan_liked_songs", "scan_playlist"}
    /\ summary.problematic_tracks /= <<>>

\* text holds part as a run of adjacent characters.
Contains(text, part) ==
    \E i \in 1..(Len(text) - Len(part) + 1) :
        SubSeq(text, i, i + Len(part) - 1) = part

LabelRemoved ==
    <<"R", "E", "M", "O", "V", "E", "D", " ", "G", "L", "O", "B", "A", "L",
      "L", "Y">>
LabelGeoLocked == <<"G", "E", "O", "-", "L", "O", "C", "K", "E", "D">>
AvailableInMarkets(n) ==
    <<"A", "v", "a", "i", "l", "a", "b", "l", "e", " ", "i", "n", " ">>
        \o ToStr(n) \o <<" ", "m", "a", "r", "k", "e", "t", "s">>

\* A problem has been displayed.
Displayed == op = "analyze_track" /\ display /= <<>>

\* C15: the display form of a ProblematicTrack is labelled "REMOVED
\* GLOBALLY" if and only if its available_markets_count is 0; for a count
\* n > 0 it is labelled "GEO-LOCKED" with "Available in n markets"; in both
\* cases the text holds the track's name.
C15_DisplayLabel ==
    Displayed =>
        LET p == Unwrap(result.value)
            n == p.available_markets_count
        IN  /\ Contains(display, LabelRemoved) <=> n = 0
            /\ n > 0 => /\ Contains(display, LabelGeoLocked)
                        /\ Contains(display, AvailableInMarkets(n))
            /\ n = 0 => ~Contains(display, LabelGeoLocked)
            /\ Contains(display, p.name)

\* A problem with one market has been displayed as geo-locked.
C15_Witness ==
    /\ Displayed
    /\ Unwrap(result.value).available_markets_count = 1
    /\ Contains(display, LabelGeoLocked)

\* A problem without markets has been displayed as removed.
C15_WitnessRemoved ==
    /\ Displayed
    /\ Unwrap(result.value).available_markets_count = 0
    /\ Contains(display, LabelRemoved)

\* A removal request has failed.
RemovalFailed ==
    \E k \in 1..Len(DeleteCalls) : ~DeleteCalls[k].ok

\* The identifiers of the removal requests that succeeded.
Committed ==
    LET Succeeded(c) == c.ok
    IN  Flatten(Map(IdsOf, SelectSeq(DeleteCalls, Succeeded)))

\* C16: when the removal of chunk k fails, the operation is over with the
\* catalog error as its whole result (no removed names, nothing that tells
\* the removed tracks from the others), chunk k was the last one requested,
\* and the chunks 0..k-1 stay committed: the liked collection is the
\* enumerated one without their tracks.
C16_RemovalFailureSurfaces ==
    RemovalFailed =>
        LET k == Len(DeleteCalls) - 1 IN
          /\ pc = "done"
          /\ result = Err(Spotify(ClientError))
          /\ ~DeleteCalls[k + 1].ok
          /\ calls[Len(calls)] = DeleteCalls[k + 1]
          /\ \A j \in 0..k :
                DeleteCalls[j + 1].ids = Chunk(tracks_to_remove, j)
          /\ \A j \in 0..(k - 1) : DeleteCalls[j + 1].ok
          /\ Committed = SubSeq(tracks_to_remove, 1, k * ChunkSize)
          /\ liked = UnsaveTracks(Map(ItemTrack, seen), Committed)

\* The second chunk failed after the first had removed its fifty tracks.
C16_Witness ==
    /\ RemovalFailed
    /\ Len(DeleteCalls) = 2
    /\ Len(Committed) = ChunkSize
    /\ Len(liked) = Len(seen) - ChunkSize
    /\ Len(tracks_to_remove) > ChunkSize

IsCountCall(c) == c.call = "saved_tracks_total"

\* The log records the outcome of the request.
LogsOutcome(log, c) ==
    /\ log.track_ids = Map(id_to_string, c.ids)
    /\ log.tracks_count = Len(c.ids)
    /\ log.status = IF c.ok THEN StatusSuccess ELSE StatusError(ClientError)

\* A step of a sync that issues the add request number k (0-based): the k
\* requests before it are completed and logged, it is the only request of
\* the step, and by the end of the step it is completed and logged under
\* batch_index k; the initial count and the whole enumeration are over and
\* the final count has not been asked for.
IssuesAddCall ==
    LET k == Len(AddCalls) IN
      /\ Len(calls') = Len(calls) + 1
      /\ AddCalls' = Append(AddCalls, calls'[Len(calls')])
      /\ AddCalls'[k + 1].ids = Chunk(track_ids, k)
      /\ Len(report.batch_logs) = k
      /\ Len(report'.batch_logs) = k + 1
      /\ SubSeq(report'.batch_logs, 1, k) = report.batch_logs
      /\ report'.batch_logs[k + 1].batch_index = k
      /\ LogsOutcome(report'.batch_logs[k + 1], AddCalls'[k + 1])
      /\ calls[1] = Call("saved_tracks_total", <<>>, TRUE)
      /\ seen = playlist
      /\ \A j \in 1..Len(calls) : calls[j].ok \/ IsAddCall(calls[j])
      /\ \A j \in 2..Len(calls) : ~IsCountCall(calls[j])

\* A step of a sync that asks for the final count: every chunk has been
\* requested, and the last request is completed and logged.
IssuesFinalCount ==
    /\ Len(calls') = Len(calls) + 1
    /\ AddCalls /= <<>>
    /\ IsCeilOfChunks(Len(AddCalls), Len(track_ids))
    /\ Len(report.batch_logs) = Len(AddCalls)
    /\ IsAddCall(calls[Len(calls)])
    /\ pc' = "done"

\* C17: the add requests of a sync are issued one at a time in chunk order:
\* request k+1 is issued only once request k is completed and logged, log k
\* (0-based) has batch_index k and records the outcome of request k, every
\* add request comes after the initial count and the whole enumeration, and
\* the final count is asked for only after the last add request.
C17_AddCallsInSequence ==
    [][op = "sync_playlist_to_liked" =>
          /\ Len(AddCalls') /= Len(AddCalls) => IssuesAddCall
          /\ (/\ Len(calls') /= Len(calls)
              /\ calls /= <<>>
              /\ IsCountCall(calls'[Len(calls')])) => IssuesFinalCount]_vars

\* A sync returned after three add requests, the second of which failed.
C17_Witness ==
    /\ SyncReturned
    /\ Len(AddCalls) = 3
    /\ AddCalls[1].ok /\ ~AddCalls[2].ok /\ AddCalls[3].ok
    /\ report.batch_logs[2].batch_index = 1
    /\ IsCountCall(calls[Len(calls)])

\* A removal is proposed from the group of isrc.
YieldsProposal(isrc) ==
    LET g == GroupOf(isrc) IN
      \E k \in 1..Len(g) :
          IsSome(g[k].id) /\ Unwrap(g[k].id) \in Range(tracks_to_remove)

\* C18: the keeper of every group from which a removal is proposed has a
\* market, its identifier is not in the removal list, and it stays in the
\* liked collection while the removals are made and after them.
C18_KeeperSurvives ==
    Resolved =>
        \A isrc \in SeenIsrcs :
            YieldsProposal(isrc) =>
                /\ isrc \in DOMAIN keepers
                /\ MarketsOf(keepers[isrc]) > 0
                /\ IsSome(keepers[isrc].id) =>
                      Unwrap(keepers[isrc].id) \notin Range(tracks_to_remove)
                /\ \E k \in 1..Len(liked) :
                      /\ liked[k] = keepers[isrc]
                      /\ liked[k].isrc = Some(isrc)
                      /\ MarketsOf(liked[k]) > 0

\* The keeper was enumerated twice besides a duplicate of another
\* identifier; the duplicate has been removed and both entries of the keeper
\* are still liked.
C18_Witness ==
    /\ DedupOver
    /\ result.kind = "Ok"
    /\ Len(tracks_to_remove) = 1
    /\ Len(seen) = 3
    /\ Len(liked) = 2
    /\ \E isrc \in SeenIsrcs :
          /\ YieldsProposal(isrc)
          /\ IsSome(keepers[isrc].id)
          /\ liked = <<keepers[isrc], keepers[isrc]>>

====
